---- MODULE Spec2Model ----
(***************************************************************************)
(* Model of qutip/core/environment.py: bosonic environments (spectral      *)
(* density J, power spectrum S, correlation function C) and the fitters    *)
(* that turn fit parameters into bath exponents.                           *)
(*                                                                         *)
(* Units.  Frequencies and times are integers in units of 1e-6, so the     *)
(* regularisation constant 1e-6 of power_spectrum is exactly 1.            *)
(* Temperatures and the Ohmic cutoff wc are integers in units of           *)
(* 1e-6 / (2 ln 2), so that exp(w / T) = 2^(2w/T) is an exact rational for *)
(* T, wc in {1, 2}.  Real values are extended rationals <<n, d>> in lowest  *)
(* terms: d > 0 is n/d, <<1,0>> is +inf, <<-1,0>> is -inf and <<0,0>> is   *)
(* nan, which is how numpy arrays behave under division by zero.  Complex  *)
(* values are pairs <<re, im>> of such rationals.                          *)
(***************************************************************************)
EXTENDS Integers, Sequences, FiniteSets, TLC

VARIABLES
    mpmath_available,   \* module global set by the guarded import
    env,                \* the environment object held by the caller
    call,               \* the last constructor call or query and its outcome
    fitter,             \* the exponent bath (a fitter or a plain
                        \* ExponentialBosonicBath) held by the caller
    inflight            \* the get_fit calls in progress on the fitter: each
                        \* caller's position and locals, and which call
                        \* wrote the exponents and fitinfo last

vars == <<mpmath_available, env, call, fitter, inflight>>

----------------------------------------------------------------------------
(* Bounds of the model *)

MaxW == 1        \* frequencies and times range over -MaxW .. MaxW
MaxLen == 2      \* longest array passed to a query or a constructor
MaxPar == 2      \* model parameters (lam, gamma, w0, alpha, s) are 1 .. MaxPar
MaxN == 2        \* largest number of fitted terms

(* Program constants *)

EPS == 1         \* the 1e-6 added to zero frequencies
NoneT == -1      \* the default T = None of BosonicEnvironment.__init__

Freqs == (0 - MaxW) .. MaxW
Temps == {0, 1, 2}             \* T : float
TempsOpt == Temps \cup {NoneT} \* T : float = None
Pars == 1 .. MaxPar
Couplings == 0 .. MaxPar       \* lam >= 0, alpha >= 0
SignedCouplings == {0 - 1} \cup Pars  \* the underdamped lam, of either sign
Cutoffs == {1, 2}
Tags == {"bath"}
Nks == {0, 1}                  \* Nk : int

----------------------------------------------------------------------------
(* Extended rational arithmetic (numpy float semantics, exact) *)

Abs(x) == IF x < 0 THEN 0 - x ELSE x

Sign(x) == IF x > 0 THEN 1 ELSE IF x < 0 THEN 0 - 1 ELSE 0

RECURSIVE GCD(_, _)
GCD(a, b) == IF b = 0 THEN a ELSE GCD(b, a % b)

RNorm(n, d) ==
    IF d = 0 THEN <<Sign(n), 0>>
    ELSE LET g == GCD(Abs(n), Abs(d))
         IN  <<Sign(d) * (n \div g), Abs(d) \div g>>

R(k) == <<k, 1>>

NaN == <<0, 0>>

IsFinite(a) == a[2] # 0

RAdd(a, b) ==
    IF a[2] = 0 /\ b[2] = 0
    THEN (IF a[1] = b[1] THEN a ELSE NaN)
    ELSE RNorm(a[1] * b[2] + b[1] * a[2], a[2] * b[2])

RNeg(a) == <<0 - a[1], a[2]>>

RMul(a, b) == RNorm(a[1] * b[1], a[2] * b[2])

RInv(a) == RNorm(a[2], a[1])

RDiv(a, b) == RMul(a, RInv(b))

RECURSIVE IPow(_, _)
IPow(b, e) == IF e = 0 THEN 1 ELSE b * IPow(b, e - 1)

\* 2^k for any integer k
Pow2(k) == IF k >= 0 THEN R(IPow(2, k)) ELSE RNorm(1, IPow(2, 0 - k))

\* np.exp(x / T) for T > 0 in the units of this model
ExpOver(x, T) == Pow2((2 * x) \div T)

(* Complex values *)

Cx(re, im) == <<re, im>>

Conj(z) == <<z[1], RNeg(z[2])>>

CAdd(y, z) == <<RAdd(y[1], z[1]), RAdd(y[2], z[2])>>

CNeg(z) == <<RNeg(z[1]), RNeg(z[2])>>

CMul(y, z) ==
    <<RAdd(RMul(y[1], z[1]), RNeg(RMul(y[2], z[2]))),
      RAdd(RMul(y[1], z[2]), RMul(y[2], z[1]))>>

CDiv(y, z) ==
    LET d == RAdd(RMul(z[1], z[1]), RMul(z[2], z[2]))
    IN  <<RDiv(RAdd(RMul(y[1], z[1]), RMul(y[2], z[2])), d),
          RDiv(RAdd(RMul(y[2], z[1]), RNeg(RMul(y[1], z[2]))), d)>>

Half == RNorm(1, 2)

\* the python literal 1j
ImagUnit == Cx(R(0), R(1))

----------------------------------------------------------------------------
(* Arrays *)

Arrays(S) == UNION {[1 .. n -> S] : n \in 1 .. MaxLen}

\* strictly increasing sample axes
Axes == {x \in Arrays(Freqs) : \A i \in 1 .. Len(x) - 1 : x[i] < x[i + 1]}

\* np.abs on an array
np_abs(a) == [i \in DOMAIN a |-> Abs(a[i])]

Range(a) == {a[i] : i \in DOMAIN a}

----------------------------------------------------------------------------
(* Functions supplied by the caller *)

\* python callables of one real argument: w -> k * w, or a bound method
\* of an analytic environment
RealFuns == {[kind |-> "fun", k |-> k] : k \in Pars}

Method(name, e) == [kind |-> "method", name |-> name, of |-> e]

\* python callables t -> (p + t) + 1j * q * (t + 1); q # 0 gives Im C(0) # 0
ComplexFuns == {[kind |-> "cfun", p |-> p, q |-> q] : p \in 0 .. 1, q \in (0 - 1) .. 1}

SampleVals == {R(1), R(2)}

ComplexVals == {Cx(R(1), R(b)) : b \in 0 .. 1}

RealSamples == {[kind |-> "array", y |-> y] : y \in Arrays(SampleVals)}

ComplexSamples == {[kind |-> "array", y |-> y] : y \in Arrays(ComplexVals)}

NoAxis == [some |-> FALSE, x |-> <<>>]

OptAxes == {NoAxis} \cup {[some |-> TRUE, x |-> x] : x \in Axes}

callable(fun) == fun.kind \in {"fun", "method", "cfun"}

Analytic == {"DrudeLorentz", "UnderDamped", "Ohmic"}

NoEnv == [variant |-> "none"]

----------------------------------------------------------------------------
(* Utility functions *)

\* a check of the axis that forgets the lengths
real_interpolation_raises_NoLength(fun, xlist) ==
    /\ ~callable(fun)
    /\ ~xlist.some

\* _real_interpolation raises ValueError
real_interpolation_raises(fun, xlist) ==
    /\ ~callable(fun)
    /\ (~xlist.some \/ Len(xlist.x) # Len(fun.y))

\* _real_interpolation, when it does not raise
real_interpolation(fun, xlist) ==
    IF callable(fun) THEN fun
    ELSE [kind |-> "interp", x |-> xlist.x, y |-> fun.y]

real_interpolation_built(fun, xlist) ==
    IF callable(fun) \/ real_interpolation_raises(fun, xlist) THEN 0 ELSE 1

np_real(fun) == [kind |-> "array", y |-> [i \in DOMAIN fun.y |-> fun.y[i][1]]]

np_imag(fun) == [kind |-> "array", y |-> [i \in DOMAIN fun.y |-> fun.y[i][2]]]

complex_interpolation_raises(fun, xlist) ==
    /\ ~callable(fun)
    /\ \/ real_interpolation_raises(np_real(fun), xlist)
       \/ real_interpolation_raises(np_imag(fun), xlist)

complex_interpolation(fun, xlist) ==
    IF callable(fun) THEN fun
    ELSE [kind |-> "cinterp",
          real_interp |-> real_interpolation(np_real(fun), xlist),
          imag_interp |-> real_interpolation(np_imag(fun), xlist)]

\* the second _real_interpolation call is reached only if the first returned
complex_interpolation_built(fun, xlist) ==
    IF callable(fun) THEN 0
    ELSE IF real_interpolation_raises(np_real(fun), xlist) THEN 0
    ELSE 1 + real_interpolation_built(np_imag(fun), xlist)

\* interp1d at a sample point: the spline passes through its samples
interp1d(f, x) == f.y[CHOOSE i \in DOMAIN f.x : f.x[i] = x]

OnAxis(f, pts) == pts \subseteq Range(f.x)

\* n_thermal(w, T) of qutip.utilities, T # None, at one frequency
n_thermal(x, T) ==
    IF T = 0 THEN R(0)
    ELSE IF x = 0 THEN NaN
    ELSE RInv(RAdd(ExpOver(x, T), R(0 - 1)))

heaviside(x, h0) == IF x < 0 THEN 0 ELSE IF x = 0 THEN h0 ELSE 1

----------------------------------------------------------------------------
(* Environments: the three characteristic functions, on arrays *)

\* no regularisation of zero frequencies
Nudge_Off(w) == w

\* w[w == 0.0] += 1e-6 on the private copy np.array(w, dtype=float)
Nudge(w) == [i \in DOMAIN w |-> IF w[i] = 0 THEN w[i] + EPS ELSE w[i]]

\* a supplied complex callable or interpolant at one time
call_complex(fn, x) ==
    IF fn.kind = "cfun" THEN Cx(R(fn.p + x), R(fn.q * (x + 1)))
    ELSE Cx(interp1d(fn.real_interp, x), interp1d(fn.imag_interp, x))

DrudeLorentz_spectral_density(e, w) ==
    [i \in DOMAIN w |->
        RNorm(2 * e.lam * e.gamma * w[i], e.gamma * e.gamma + w[i] * w[i])]

\* the coupling entering linearly
UnderDamped_spectral_density_Linear(e, w) ==
    [i \in DOMAIN w |->
        RNorm(e.lam * e.gamma * w[i],
              (w[i] * w[i] - e.w0 * e.w0) * (w[i] * w[i] - e.w0 * e.w0)
              + (e.gamma * w[i]) * (e.gamma * w[i]))]

UnderDamped_spectral_density(e, w) ==
    [i \in DOMAIN w |->
        RNorm(e.lam * e.lam * e.gamma * w[i],
              (w[i] * w[i] - e.w0 * e.w0) * (w[i] * w[i] - e.w0 * e.w0)
              + (e.gamma * w[i]) * (e.gamma * w[i]))]

\* alpha * w ** s / wc ** (1 - s) * exp(-|w| / wc), s a positive integer
Ohmic_spectral_density(e, w) ==
    [i \in DOMAIN w |->
        RMul(RDiv(R(e.alpha * IPow(w[i], e.s)), RNorm(1, IPow(e.wc, e.s - 1))),
             ExpOver(0 - Abs(w[i]), e.wc))]

RECURSIVE spectral_density(_, _)
RECURSIVE power_spectrum(_, _)
RECURSIVE call_real(_, _)
RECURSIVE BosonicEnvironment_power_spectrum(_, _)

\* a supplied real callable or interpolant on an array
call_real(fn, w) ==
    CASE fn.kind = "fun" -> [i \in DOMAIN w |-> R(fn.k * w[i])]
      [] fn.kind = "interp" -> [i \in DOMAIN w |-> interp1d(fn, w[i])]
      [] fn.kind = "method" ->
            IF fn.name = "power_spectrum" THEN power_spectrum(fn.of, w)
            ELSE spectral_density(fn.of, w)

\* the derivation with J(w) in place of J(|w|)
BosonicEnvironment_power_spectrum_NoAbs(e, w) ==
    LET w1 == Nudge(w)
    IN  IF e.T # 0
        THEN LET J == spectral_density(e, w1)
             IN  [i \in DOMAIN w1 |->
                    RMul(RMul(R(2 * Sign(w1[i])), J[i]),
                         RAdd(n_thermal(w1[i], e.T), R(1)))]
        ELSE LET J == spectral_density(e, w1)
             IN  [i \in DOMAIN w1 |-> RMul(R(2 * heaviside(w1[i], 0)), J[i])]

\* the default J -> S derivation
BosonicEnvironment_power_spectrum(e, w) ==
    LET w1 == Nudge(w)
    IN  IF e.T # 0
        THEN LET J == spectral_density(e, np_abs(w1))
             IN  [i \in DOMAIN w1 |->
                    RMul(RMul(R(2 * Sign(w1[i])), J[i]),
                         RAdd(n_thermal(w1[i], e.T), R(1)))]
        ELSE LET J == spectral_density(e, w1)
             IN  [i \in DOMAIN w1 |-> RMul(R(2 * heaviside(w1[i], 0)), J[i])]

\* _fft(self.correlation_function, w[-1], dt) evaluated at -w: the window
\* of the transform is the last requested frequency
fromCF_power_spectrum(e, w) ==
    [i \in DOMAIN w |-> [fft |-> "correlation_function",
                         t0 |-> w[Len(w)], at |-> 0 - w[i]]]

power_spectrum(e, w) ==
    CASE e.variant = "PS" -> call_real(e.ps, w)
      [] e.variant = "CF" -> fromCF_power_spectrum(e, w)
      [] OTHER -> BosonicEnvironment_power_spectrum(e, w)

\* power_spectrum(w) / (n_thermal(w, T) + 1) / 2
fromPS_spectral_density(e, w) ==
    LET S == power_spectrum(e, w)
    IN  [i \in DOMAIN w |->
            RDiv(RDiv(S[i], RAdd(n_thermal(w[i], e.T), R(1))), R(2))]

fromCF_spectral_density(e, w) ==
    LET S == power_spectrum(e, w)
    IN  [i \in DOMAIN w |->
            [num |-> S[i],
             den |-> RMul(RAdd(n_thermal(w[i], e.T), R(1)), R(2))]]

spectral_density(e, w) ==
    CASE e.variant = "DrudeLorentz" -> DrudeLorentz_spectral_density(e, w)
      [] e.variant = "UnderDamped" -> UnderDamped_spectral_density(e, w)
      [] e.variant = "Ohmic" -> Ohmic_spectral_density(e, w)
      [] e.variant = "SD" -> call_real(e.sd, w)
      [] e.variant = "PS" -> fromPS_spectral_density(e, w)
      [] e.variant = "CF" -> fromCF_spectral_density(e, w)

\* negative times answered without the conjugate
fromCF_correlation_function_NoConj(e, t) ==
    [i \in DOMAIN t |-> call_complex(e.cf, Abs(t[i]))]

fromCF_correlation_function(e, t) ==
    [i \in DOMAIN t |->
        IF t[i] > 0 THEN call_complex(e.cf, t[i])
        ELSE Conj(call_complex(e.cf, Abs(t[i])))]

Min(a, b) == IF a < b THEN a ELSE b

\* zip(c, v): pairs up to the shorter list
Zip(c, v) == [k \in 1 .. Min(Len(c), Len(v)) |-> [ck |-> c[k], vk |-> v[k]]]

\* A rate x + 2 pi y is the pair of rationals [rat |-> x, twopi |-> y].  The
\* coefficients keep the operands of the expression that computes them:
\*   "cot"       times / tan(num / den)
\*   "matsubara" pi_times * pi / ((2 pi * twopi) ** 2 - minus)
\*   "rational"  value
Rate(x, y) == [rat |-> x, twopi |-> y]

\* the Matsubara terms built by range(1, Nk)
DrudeLorentz_matsubara_params_ShortRange(e, Nk) ==
    [ck_real |-> <<[form |-> "cot", times |-> R(e.lam * e.gamma),
                    num |-> e.gamma, den |-> 2 * e.T]>>
                 \o [k \in 1 .. Nk - 1 |->
                        [form |-> "matsubara",
                         pi_times |-> R(8 * e.lam * e.gamma * e.T * k * e.T),
                         twopi |-> R(k * e.T),
                         minus |-> R(e.gamma * e.gamma)]],
     vk_real |-> <<Rate(R(e.gamma), R(0))>>
                 \o [k \in 1 .. Nk - 1 |-> Rate(R(0), R(k * e.T))],
     ck_imag |-> <<[form |-> "rational", value |-> R(0 - e.lam * e.gamma)]>>,
     vk_imag |-> <<Rate(R(e.gamma), R(0))>>]

\* DrudeLorentzEnvironment._matsubara_params(Nk), T # 0
DrudeLorentz_matsubara_params(e, Nk) ==
    [ck_real |-> <<[form |-> "cot", times |-> R(e.lam * e.gamma),
                    num |-> e.gamma, den |-> 2 * e.T]>>
                 \o [k \in 1 .. Nk |->
                        [form |-> "matsubara",
                         pi_times |-> R(8 * e.lam * e.gamma * e.T * k * e.T),
                         twopi |-> R(k * e.T),
                         minus |-> R(e.gamma * e.gamma)]],
     vk_real |-> <<Rate(R(e.gamma), R(0))>>
                 \o [k \in 1 .. Nk |-> Rate(R(0), R(k * e.T))],
     ck_imag |-> <<[form |-> "rational", value |-> R(0 - e.lam * e.gamma)]>>,
     vk_imag |-> <<Rate(R(e.gamma), R(0))>>]

\* the principal square root of a real number, kept as its radicand
Sqrt(x) == [sqrt |-> x]

\* UnderDampedEnvironment._matsubara_params(Nk), T # 0: the two resonant
\* terms at rates Gamma -/+ i Om, then Nk Matsubara terms.  No method of the
\* class calls it.
\*   "coth"      lam2 / (4 Om) / tanh(beta (Om + sign * 1j * Gamma) / 2)
\*   "matsubara" the k-th correction term, beta = 1 / T
\*   "imag"      sign * 1j * lam2 / (4 Om)
UnderDamped_matsubara_params(e, Nk) ==
    LET Gamma == RNorm(e.gamma, 2)
        Om == Sqrt(RAdd(R(e.w0 * e.w0), RNeg(RMul(Gamma, Gamma))))
        lam2 == R(e.lam * e.lam)
        res == <<[re |-> Gamma, im |-> <<0 - 1, Om>>],
                 [re |-> Gamma, im |-> <<1, Om>>]>>
    IN  [ck_real |-> <<[form |-> "coth", lam2 |-> lam2, Om |-> Om,
                        sign |-> 1, Gamma |-> Gamma, T |-> e.T],
                       [form |-> "coth", lam2 |-> lam2, Om |-> Om,
                        sign |-> 0 - 1, Gamma |-> Gamma, T |-> e.T]>>
                     \o [k \in 1 .. Nk |->
                            [form |-> "matsubara", lam2 |-> lam2,
                             gamma |-> R(e.gamma), Om |-> Om,
                             Gamma |-> Gamma, k |-> k, T |-> e.T]],
         vk_real |-> res \o [k \in 1 .. Nk |-> Rate(R(0), R(k * e.T))],
         ck_imag |-> <<[form |-> "imag", sign |-> 1, lam2 |-> lam2, Om |-> Om],
                       [form |-> "imag", sign |-> 0 - 1, lam2 |-> lam2, Om |-> Om]>>,
         vk_imag |-> res]

\* C(ck_real, vk_real) + 1j * C(ck_imag, vk_imag) at one time: the two sums
\* of ck * exp(-vk * t) are kept as the lists of their terms
DrudeLorentz_correlation_function(e, t, Nk) ==
    LET p == DrudeLorentz_matsubara_params(e, Nk)
    IN  [i \in DOMAIN t |->
            [via |-> "matsubara", t |-> t[i],
             real |-> Zip(p.ck_real, p.vk_real),
             imag |-> Zip(p.ck_imag, p.vk_imag)]]

\* the default J -> C derivation: quad_vec of the integrand built on
\* spectral_density and n_thermal, not evaluated
BosonicEnvironment_correlation_function(e, t) ==
    [i \in DOMAIN t |-> [via |-> "quad_vec", t |-> t[i]]]

\* the closed forms of mpmath are not evaluated: the result records the
\* branch that produces it
Ohmic_correlation_function(e, t) ==
    [i \in DOMAIN t |->
        [via |-> IF e.T # 0 THEN "zeta" ELSE "gamma", t |-> t[i]]]

correlation_function(e, t, Nk) ==
    CASE e.variant = "CF" -> fromCF_correlation_function(e, t)
      [] e.variant = "DrudeLorentz" -> DrudeLorentz_correlation_function(e, t, Nk)
      [] e.variant = "Ohmic" -> Ohmic_correlation_function(e, t)
      [] OTHER -> BosonicEnvironment_correlation_function(e, t)

(* Errors raised by the queries *)

spectral_density_error(e) ==
    IF e.variant \in {"PS", "CF"} /\ e.T = NoneT
    THEN "MissingParameterError" ELSE "none"

power_spectrum_error(e) ==
    IF e.variant \in Analytic \cup {"SD"} /\ e.T = NoneT
    THEN "MissingParameterError" ELSE "none"

\* the T = 0 closed form taken not to need mpmath
correlation_function_error_ZeroT(e) ==
    CASE e.variant = "CF" -> "none"
      [] e.variant = "DrudeLorentz" ->
            IF e.T = 0 THEN "ZeroDivisionError" ELSE "none"
      [] e.variant = "Ohmic" ->
            IF ~mpmath_available /\ e.T # 0 THEN "NameError" ELSE "none"
      [] OTHER -> IF e.T = NoneT THEN "MissingParameterError" ELSE "none"

correlation_function_error(e) ==
    CASE e.variant = "CF" -> "none"
      [] e.variant = "DrudeLorentz" ->
            IF e.T = 0 THEN "ZeroDivisionError" ELSE "none"
      [] e.variant = "Ohmic" ->
            IF ~mpmath_available THEN "NameError" ELSE "none"
      [] OTHER -> IF e.T = NoneT THEN "MissingParameterError" ELSE "none"

\* the default power_spectrum working on the caller's array itself
caller_array_InPlace(e, op, w) ==
    IF op = "power_spectrum" /\ e.variant \in Analytic \cup {"SD"}
    THEN Nudge(w) ELSE w

\* the caller's array after a query: np.array(w, dtype=float) copies, so
\* the nudge of power_spectrum acts on a private array; no other query
\* assigns to its argument
caller_array(e, op, w) == w

(* Points at which a query evaluates the environment's own spectral        *)
(* density, the occupation number, and the stored function                 *)

EvalJ(e, op, w) ==
    CASE op = "spectral_density" -> Range(w)
      [] op = "power_spectrum" /\ e.variant \in Analytic \cup {"SD"} ->
            IF e.T # 0 THEN {Abs(x) : x \in Range(Nudge(w))}
            ELSE Range(Nudge(w))
      [] OTHER -> {}

EvalN(e, op, w) ==
    CASE op = "spectral_density" /\ e.variant \in {"PS", "CF"} -> Range(w)
      [] op = "power_spectrum" /\ e.variant \in Analytic \cup {"SD"} ->
            IF e.T # 0 THEN Range(Nudge(w)) ELSE {}
      [] OTHER -> {}

\* an interpolant is only evaluated at its sample points in this model
Evaluable(e, op, w) ==
    CASE e.variant = "SD" /\ e.sd.kind = "interp" ->
            op = "correlation_function" \/ OnAxis(e.sd, EvalJ(e, op, w))
      [] e.variant = "PS" /\ e.ps.kind = "interp" ->
            op = "correlation_function" \/ OnAxis(e.ps, Range(w))
      [] e.variant = "CF" /\ e.cf.kind = "cinterp" ->
            \/ op # "correlation_function"
            \/ OnAxis(e.cf.real_interp, {Abs(x) : x \in Range(w)})
      [] OTHER -> TRUE

----------------------------------------------------------------------------
(* Operations on environments *)

NoFun == [kind |-> "none"]

NoCall == [op |-> "none", arg |-> <<>>, Nk |-> 0, ret |-> <<>>, err |-> "none",
           evalJ |-> {}, evalN |-> {}, built |-> 0, warned |-> 0,
           returned |-> FALSE, handed |-> <<>>,
           final_rmse |-> 0, ran |-> <<>>, after |-> <<>>,
           fun |-> NoFun, xlist |-> NoAxis]

\* a constructor call: the object is bound only when no error is raised
Constructed(name, e, fun, xlist, raises, built, warned) ==
    /\ env' = IF raises THEN env ELSE e
    /\ call' = [NoCall EXCEPT !.op = name, !.fun = fun, !.xlist = xlist,
                              !.err = IF raises THEN "ValueError" ELSE "none",
                              !.built = built, !.warned = warned,
                              !.returned = ~raises]
    /\ UNCHANGED <<mpmath_available, fitter, inflight>>

\* The caller builds one environment, may derive a second one from a bound
\* method of an analytic one, and queries what it holds.
Fresh == env.variant = "none"

Supplied(samples, name) ==
    IF Fresh THEN RealFuns \cup samples
    ELSE IF env.variant \in Analytic THEN {Method(name, env)}
    ELSE {}

\* a derived environment is given the temperature of its source
DerivedT == IF Fresh THEN TempsOpt ELSE {env.T}

from_spectral_density ==
    \E T \in DerivedT, J \in Supplied(RealSamples, "spectral_density"),
       wlist \in OptAxes, tag \in Tags :
        Constructed("from_spectral_density",
                    [variant |-> "SD", T |-> T, tag |-> tag,
                     sd |-> real_interpolation(J, wlist)],
                    J, wlist,
                    real_interpolation_raises(J, wlist),
                    real_interpolation_built(J, wlist), 0)

from_power_spectrum ==
    \E T \in DerivedT, S \in Supplied(RealSamples, "power_spectrum"),
       wlist \in OptAxes, tag \in Tags :
        Constructed("from_power_spectrum",
                    [variant |-> "PS", T |-> T, tag |-> tag,
                     ps |-> real_interpolation(S, wlist)],
                    S, wlist,
                    real_interpolation_raises(S, wlist),
                    real_interpolation_built(S, wlist), 0)

from_correlation_function ==
    /\ Fresh
    /\ \E T \in TempsOpt, C \in ComplexFuns \cup ComplexSamples,
         tlist \in OptAxes, tag \in Tags :
        Constructed("from_correlation_function",
                    [variant |-> "CF", T |-> T, tag |-> tag,
                     cf |-> complex_interpolation(C, tlist)],
                    C, tlist,
                    complex_interpolation_raises(C, tlist),
                    complex_interpolation_built(C, tlist), 0)

DrudeLorentzEnvironment ==
    /\ Fresh
    /\ \E T \in Temps, lam \in Couplings, gamma \in Pars, tag \in Tags :
        Constructed("DrudeLorentzEnvironment",
                    [variant |-> "DrudeLorentz", T |-> T, tag |-> tag,
                     lam |-> lam, gamma |-> gamma],
                    NoFun, NoAxis, FALSE, 0, 0)

UnderDampedEnvironment ==
    /\ Fresh
    /\ \E T \in Temps, lam \in SignedCouplings, gamma \in Pars, w0 \in Pars,
         tag \in Tags :
        Constructed("UnderDampedEnvironment",
                    [variant |-> "UnderDamped", T |-> T, tag |-> tag,
                     lam |-> lam, gamma |-> gamma, w0 |-> w0],
                    NoFun, NoAxis, FALSE, 0, 0)

\* warnings.warn is called once when mpmath could not be imported
OhmicEnvironment_warnings == IF mpmath_available = FALSE THEN 1 ELSE 0

OhmicEnvironment ==
    /\ Fresh
    /\ \E T \in Temps, alpha \in Couplings, wc \in Cutoffs, s \in Pars,
         tag \in Tags :
        Constructed("OhmicEnvironment",
                    [variant |-> "Ohmic", T |-> T, tag |-> tag,
                     alpha |-> alpha, wc |-> wc, s |-> s],
                    NoFun, NoAxis, FALSE, 0, OhmicEnvironment_warnings)

\* a query on the environment held by the caller
Query(op, w, Nk, err, ret) ==
    /\ env.variant # "none"
    /\ Evaluable(env, op, w)
    /\ call' = [NoCall EXCEPT !.op = op, !.arg = w, !.Nk = Nk, !.err = err,
                              !.after = caller_array(env, op, w),
                              !.ret = IF err = "none" THEN ret ELSE <<>>,
                              !.evalJ = EvalJ(env, op, w),
                              !.evalN = EvalN(env, op, w)]
    /\ UNCHANGED <<mpmath_available, env, fitter, inflight>>

query_spectral_density ==
    \E w \in Arrays(Freqs) :
        Query("spectral_density", w, 0, spectral_density_error(env),
              spectral_density(env, w))

query_power_spectrum ==
    \E w \in Arrays(Freqs) :
        Query("power_spectrum", w, 0, power_spectrum_error(env),
              power_spectrum(env, w))

\* only DrudeLorentzEnvironment.correlation_function takes Nk
NkArgs(e) == IF e.variant = "DrudeLorentz" THEN Nks ELSE {0}

query_correlation_function ==
    \E t \in Arrays(Freqs), Nk \in NkArgs(env) :
        Query("correlation_function", t, Nk, correlation_function_error(env),
              correlation_function(env, t, Nk))

----------------------------------------------------------------------------
(* Fitters *)

NoneN == 0       \* N = None, Nr = None, Ni = None: order chosen by the fit
Qs == {"Q"}      \* the coupling operator is an opaque handle
Rmses == {1, 9}  \* achieved rmse, in units of 1e-6
FinalRmses == {5}  \* final_rmse = 5e-6, between the two achieved errors

\* fitted terms (a, b, c) of the Meier-Tannor ansatz; the ansatz is even in
\* c, and the bounds of the fit are the caller's
SpectralTerms == {<<1, 1, 0 - 1>>, <<0 - 1, 2, 1>>, <<2, 2, 0>>}

\* fitted terms (a, b, c) and (a, b, c, d) of the exponential ansatz
CorrTerms3 == {<<1, 0 - 1, 1>>, <<2, 0, 1>>}
CorrTerms4 == {<<1, 0 - 1, 1, 1>>, <<2, 0, 1, 2>>}

TermLists(S) == UNION {[1 .. n -> S] : n \in 1 .. MaxN}

\* _run_fit returns one list per parameter
Column(terms, j) == [k \in DOMAIN terms |-> terms[k][j]]

Params(terms, n) == [j \in 1 .. n |-> Column(terms, j)]

RECURSIVE Flatten(_)
Flatten(ss) == IF ss = <<>> THEN <<>> ELSE Head(ss) \o Flatten(Tail(ss))

\* UnderDampedBath._matsubara_params(lam, gamma, w0, T, Nk): the two
\* resonant terms at rates Gamma -/+ i Om and Nk Matsubara terms
UnderDampedBath_matsubara_params(lam, gamma, w0, T, Nk) ==
    LET Om == Sqrt(RAdd(w0.sqrt, RNeg(RMul(RDiv(gamma, R(2)), RDiv(gamma, R(2))))))
        Gamma == RDiv(gamma, R(2))
        ck(part, j) == [coeff |-> part, j |-> j, lam |-> lam, Om |-> Om,
                        Gamma |-> Gamma, T |-> T]
        res == <<[re |-> Gamma, im |-> <<0 - 1, Om>>],
                 [re |-> Gamma, im |-> <<1, Om>>]>>
    IN  [ck_real |-> [j \in 1 .. 2 + Nk |-> ck("real", j)],
         vk_real |-> res \o [k \in 1 .. Nk |-> [matsubara |-> k, T |-> T]],
         ck_imag |-> [j \in 1 .. 2 |-> ck("imag", j)],
         vk_imag |-> res]

\* BosonicBath.__init__: every pair is tagged with its kind
BosonicBath_init(ck_real, vk_real, ck_imag, vk_imag) ==
    [k \in DOMAIN ck_real |-> [type |-> "R", ck |-> ck_real[k], vk |-> vk_real[k]]]
    \o [k \in DOMAIN ck_imag |-> [type |-> "I", ck |-> ck_imag[k], vk |-> vk_imag[k]]]

\* the transformation with the damping halved inside the square root
SpectralFitter_transform_Halved(params, i) ==
    LET lam == params[1]
        gamma == params[2]
        w0 == params[3]
    IN  [lam |-> Sqrt(R(lam[i])),
         gamma |-> R(2 * gamma[i]),
         w0 |-> Sqrt(RAdd(RMul(R(w0[i]), R(w0[i])),
                          RMul(RDiv(RAdd(R(gamma[i]), R(0)), R(2)),
                               RDiv(RAdd(R(gamma[i]), R(0)), R(2)))))]

\* the arguments SpectralFitter._generate_bath hands to the expansion of term i
SpectralFitter_transform(params, i) ==
    LET lam == params[1]
        gamma == params[2]
        w0 == params[3]
    IN  [lam |-> Sqrt(R(lam[i])),
         gamma |-> R(2 * gamma[i]),
         w0 |-> Sqrt(RAdd(RMul(R(w0[i]), R(w0[i])),
                          RMul(RAdd(R(gamma[i]), RDiv(R(0), R(2))),
                               RAdd(R(gamma[i]), RDiv(R(0), R(2))))))]

\* the expansions concatenated from the last fitted term to the first
SpectralFitter_generate_bath_Reversed(f, params, Nk) ==
    LET n == Len(params[1])
        handed == [i \in 1 .. n |-> SpectralFitter_transform(params, i)]
        coeffs == [i \in 1 .. n |->
                     UnderDampedBath_matsubara_params(
                         handed[n + 1 - i].lam, handed[n + 1 - i].gamma,
                         handed[n + 1 - i].w0, f.T, Nk)]
    IN  [handed |-> handed,
         ckAR |-> Flatten([i \in 1 .. n |-> coeffs[i].ck_real]),
         vkAR |-> Flatten([i \in 1 .. n |-> coeffs[i].vk_real]),
         ckAI |-> Flatten([i \in 1 .. n |-> coeffs[i].ck_imag]),
         vkAI |-> Flatten([i \in 1 .. n |-> coeffs[i].vk_imag])]

SpectralFitter_generate_bath(f, params, Nk) ==
    LET n == Len(params[1])
        handed == [i \in 1 .. n |-> SpectralFitter_transform(params, i)]
        coeffs == [i \in 1 .. n |->
                     UnderDampedBath_matsubara_params(
                         handed[i].lam, handed[i].gamma, handed[i].w0, f.T, Nk)]
    IN  [handed |-> handed,
         ckAR |-> Flatten([i \in 1 .. n |-> coeffs[i].ck_real]),
         vkAR |-> Flatten([i \in 1 .. n |-> coeffs[i].vk_real]),
         ckAI |-> Flatten([i \in 1 .. n |-> coeffs[i].ck_imag]),
         vkAI |-> Flatten([i \in 1 .. n |-> coeffs[i].vk_imag])]

\* the list extended with itself
ExtendConj_Copy(ck) == ck \o ck

\* ckAR.extend(np.conjugate(ckAR))
ExtendConj(ck) == ck \o [k \in DOMAIN ck |-> Conj(ck[k])]

\* both halves with the same sign of the oscillation
Rates_SameSign(b, c) ==
    [k \in DOMAIN b |-> Cx(R(0 - b[k]), R(0 - c[k]))]
    \o [k \in DOMAIN b |-> Cx(R(0 - b[k]), R(0 - c[k]))]

\* [-x - 1.0j * y ...] extended with [-x + 1.0j * y ...]
Rates(b, c) ==
    [k \in DOMAIN b |-> Cx(R(0 - b[k]), R(0 - c[k]))]
    \o [k \in DOMAIN b |-> Cx(R(0 - b[k]), R(c[k]))]

CorrelationFitter_generate_bath(params_real, params_imag, n) ==
    LET a == params_real[1]
        b == params_real[2]
        c == params_real[3]
        d == IF n = 4 THEN params_real[4] ELSE [k \in DOMAIN a |-> 0]
        a2 == params_imag[1]
        b2 == params_imag[2]
        c2 == params_imag[3]
        d2 == IF n = 4 THEN params_imag[4] ELSE [k \in DOMAIN a2 |-> 0]
    IN  [handed |-> <<>>,
         ckAR |-> ExtendConj([k \in DOMAIN a |->
                     CMul(Cx(R(a[k]), R(d[k])), Cx(Half, R(0)))]),
         vkAR |-> Rates(b, c),
         ckAI |-> ExtendConj([k \in DOMAIN a2 |->
                     CMul(CMul(CNeg(ImagUnit), Cx(R(a2[k]), R(d2[k]))),
                          Cx(Half, R(0)))]),
         vkAI |-> Rates(b2, c2)]

NoFitter == [kind |-> "none"]

NoInfo == [set |-> FALSE]

\* the instance SpectralFitter.__init__ or CorrelationFitter.__init__ leaves
FitterInstance(kind, Q, T, x, fun) ==
    [kind |-> kind, Q |-> Q, T |-> T, x |-> x, fun |-> fun,
     fitinfo |-> NoInfo, has_bath |-> FALSE,
     ckAR |-> <<>>, vkAR |-> <<>>, ckAI |-> <<>>, vkAI |-> <<>>,
     exponents |-> <<>>]

\* SpectralFitter.__init__ and CorrelationFitter.__init__
NewFitter(kind, Q, T, x, fun) ==
    /\ fitter.kind = "none"
    /\ fitter' = FitterInstance(kind, Q, T, x, fun)
    /\ call' = [NoCall EXCEPT !.op = kind, !.returned = TRUE]
    /\ UNCHANGED <<mpmath_available, env, inflight>>

FitAxes == {x \in Axes : Len(x) = MaxLen}

SpectralFitter ==
    \E T \in Temps \ {0}, Q \in Qs, w \in FitAxes, J \in RealFuns :
        NewFitter("SpectralFitter", Q, T, w, J)

CorrelationFitter ==
    \E T \in Temps, Q \in Qs, t \in FitAxes, C \in ComplexFuns :
        NewFitter("CorrelationFitter", Q, T, t, C)

\* the end of get_fit: the bath is built and fitinfo set.  As in from_sd and
\* from_cf, a fitter instance is fitted once.  ran lists what the calls of
\* _run_fit returned.
Fitted(bath, fitInfo, final_rmse, ran) ==
    /\ fitter' = [fitter EXCEPT
            !.has_bath = TRUE,
            !.ckAR = bath.ckAR, !.vkAR = bath.vkAR,
            !.ckAI = bath.ckAI, !.vkAI = bath.vkAI,
            !.exponents = BosonicBath_init(bath.ckAR, bath.vkAR,
                                           bath.ckAI, bath.vkAI),
            !.fitinfo = fitInfo]
    /\ call' = [NoCall EXCEPT !.op = "get_fit", !.handed = bath.handed,
                              !.final_rmse = final_rmse, !.ran = ran]
    /\ UNCHANGED <<mpmath_available, env, inflight>>

\* the orders _run_fit may return when asked for N
Orders(N) == IF N = NoneN THEN 1 .. MaxN ELSE {N}

\* _run_fit(..., final_rmse, N=N): the achieved rmse and the number of terms
\* of the returned parameters.  With N given, N terms are fitted whatever
\* the rmse; with N = None the order grows from 1 until the rmse is at most
\* final_rmse or the cap is reached, and the best attempt is returned with
\* its rmse.  It does not raise on a shortfall.
run_fit(N, final_rmse) ==
    {o \in [rmse : Rmses, n : Orders(N)] :
        (N = NoneN /\ o.rmse > final_rmse) => o.n = MaxN}

\* the dictionary get_fit stores in self.fitinfo (fit_time left out)
SpectralFitter_fitInfo(rmse, N, params, Nk) ==
    [set |-> TRUE, rmse |-> rmse, N |-> Len(params[1]),
     params |-> params, Nk |-> Nk,
     summary |-> <<"gen_summary", rmse, N, params>>]

SpectralFitter_get_fit ==
    /\ fitter.kind = "SpectralFitter"
    /\ ~fitter.has_bath
    /\ \E N \in {NoneN} \cup (1 .. MaxN), Nk \in Nks, final_rmse \in FinalRmses :
        \E o \in run_fit(N, final_rmse), terms \in TermLists(SpectralTerms) :
            /\ Len(terms) = o.n
            /\ LET params == Params(terms, 3)
               IN  Fitted(SpectralFitter_generate_bath(fitter, params, Nk),
                          SpectralFitter_fitInfo(o.rmse, N, params, Nk),
                          final_rmse,
                          <<[rmse |-> o.rmse, params |-> params]>>)

\* the two achieved errors stored under each other's key
CorrelationFitter_fitInfo_Swapped(rmse_real, rmse_imag, params_real, params_imag) ==
    [set |-> TRUE,
     Nr |-> Len(params_real[1]),
     Ni |-> Len(params_imag[1]),
     rmse_real |-> rmse_imag, rmse_imag |-> rmse_real,
     params_real |-> params_real,
     params_imag |-> params_imag,
     summary |-> <<"two_column_summary", params_real,
                   params_imag, rmse_imag, rmse_real>>]

\* the dictionary get_fit stores in self.fitinfo (fit times left out)
CorrelationFitter_fitInfo(rmse_real, rmse_imag, params_real, params_imag) ==
    [set |-> TRUE,
     Nr |-> Len(params_real[1]),
     Ni |-> Len(params_imag[1]),
     rmse_real |-> rmse_real, rmse_imag |-> rmse_imag,
     params_real |-> params_real,
     params_imag |-> params_imag,
     summary |-> <<"two_column_summary", params_real,
                   params_imag, rmse_imag, rmse_real>>]

CorrelationFitter_get_fit ==
    /\ fitter.kind = "CorrelationFitter"
    /\ ~fitter.has_bath
    /\ \E full_ansatz \in BOOLEAN, final_rmse \in FinalRmses,
          Nr \in {NoneN} \cup (1 .. MaxN), Ni \in {NoneN} \cup (1 .. MaxN) :
        LET num_params == IF full_ansatz THEN 4 ELSE 3
            terms == IF full_ansatz THEN CorrTerms4 ELSE CorrTerms3
        IN  \E re \in run_fit(Nr, final_rmse), im \in run_fit(Ni, final_rmse),
               tr \in TermLists(terms), ti \in TermLists(terms) :
              /\ Len(tr) = re.n
              /\ Len(ti) = im.n
              /\ LET params_real == Params(tr, num_params)
                     params_imag == Params(ti, num_params)
                 IN  Fitted(CorrelationFitter_generate_bath(
                                params_real, params_imag, num_params),
                            CorrelationFitter_fitInfo(
                                re.rmse, im.rmse, params_real, params_imag),
                            final_rmse,
                            <<[rmse |-> re.rmse, params |-> params_real],
                              [rmse |-> im.rmse, params |-> params_imag]>>)

----------------------------------------------------------------------------
(* Two callers of get_fit on one fitter instance.  A call runs _run_fit on *)
(* its own locals, then _generate_bath assigns the instance's exponents,   *)
(* then the assignment self.fitinfo = fitInfo; another thread may run      *)
(* between any two of these.                                               *)

Callers == {1, 2}

\* a caller's frame: its position in get_fit and the locals later steps use
Idle == [pc |-> "idle", N |-> NoneN, Nk |-> 0, n |-> 0, final_rmse |-> 0,
         ran |-> <<>>]

\* by: the caller whose step assigned the exponents / fitinfo last (0 for
\* none); overlapped: some call began while another was in progress
NoCalls == [of |-> [c \in Callers |-> Idle],
            exponents_by |-> 0, fitinfo_by |-> 0, overlapped |-> FALSE]

InProgress(c) == inflight.of[c].pc \in {"ran", "generated"}

\* get_fit up to the return of _run_fit: nothing of the instance is written
Began(c, frame) ==
    /\ inflight.of[c].pc = "idle"
    /\ inflight' = [inflight EXCEPT
            !.of[c] = frame,
            !.overlapped = @ \/ \E d \in Callers \ {c} : InProgress(d)]
    /\ UNCHANGED <<mpmath_available, env, call, fitter>>

\* the orders and terms the two callers ask for: one term per fit
CallNs == {1}

SpectralFitter_run_fit ==
    /\ fitter.kind = "SpectralFitter"
    /\ \E c \in Callers, N \in CallNs, Nk \in {0}, final_rmse \in FinalRmses :
        \E o \in run_fit(N, final_rmse), terms \in TermLists(SpectralTerms) :
            /\ Len(terms) = o.n
            /\ Began(c, [pc |-> "ran", N |-> N, Nk |-> Nk, n |-> 3,
                         final_rmse |-> final_rmse,
                         ran |-> <<[rmse |-> o.rmse,
                                    params |-> Params(terms, 3)]>>])

CorrelationFitter_run_fit ==
    /\ fitter.kind = "CorrelationFitter"
    /\ \E c \in Callers, Nr \in CallNs, Ni \in CallNs,
          final_rmse \in FinalRmses :
        \E re \in run_fit(Nr, final_rmse), im \in run_fit(Ni, final_rmse),
           tr \in TermLists(CorrTerms3), ti \in TermLists(CorrTerms3) :
            /\ Len(tr) = re.n
            /\ Len(ti) = im.n
            /\ Began(c, [pc |-> "ran", N |-> Nr, Nk |-> 0, n |-> 3,
                         final_rmse |-> final_rmse,
                         ran |-> <<[rmse |-> re.rmse,
                                    params |-> Params(tr, 3)],
                                   [rmse |-> im.rmse,
                                    params |-> Params(ti, 3)]>>])

\* what self._generate_bath builds from a frame's parameters
frame_bath(f, l) ==
    IF f.kind = "SpectralFitter"
    THEN SpectralFitter_generate_bath(f, l.ran[1].params, l.Nk)
    ELSE CorrelationFitter_generate_bath(l.ran[1].params, l.ran[2].params, l.n)

\* the fitInfo dictionary built from a frame's locals
frame_fitInfo(f, l) ==
    IF f.kind = "SpectralFitter"
    THEN SpectralFitter_fitInfo(l.ran[1].rmse, l.N, l.ran[1].params, l.Nk)
    ELSE CorrelationFitter_fitInfo(l.ran[1].rmse, l.ran[2].rmse,
                                   l.ran[1].params, l.ran[2].params)

\* a call that moves on without assigning the exponents
generate_bath_Skipped ==
    \E c \in Callers :
        /\ inflight.of[c].pc = "ran"
        /\ inflight' = [inflight EXCEPT !.of[c].pc = "generated"]
        /\ UNCHANGED <<mpmath_available, env, call, fitter>>

\* self._generate_bath(...): super().__init__ assigns the coefficient lists
\* and the exponents of the instance
generate_bath ==
    \E c \in Callers :
        /\ inflight.of[c].pc = "ran"
        /\ LET bath == frame_bath(fitter, inflight.of[c])
           IN  fitter' = [fitter EXCEPT
                    !.has_bath = TRUE,
                    !.ckAR = bath.ckAR, !.vkAR = bath.vkAR,
                    !.ckAI = bath.ckAI, !.vkAI = bath.vkAI,
                    !.exponents = BosonicBath_init(bath.ckAR, bath.vkAR,
                                                   bath.ckAI, bath.vkAI)]
        /\ inflight' = [inflight EXCEPT !.of[c].pc = "generated",
                                        !.exponents_by = c]
        /\ UNCHANGED <<mpmath_available, env, call>>

\* self.fitinfo = fitInfo, and the return of get_fit
set_fitinfo ==
    \E c \in Callers :
        /\ inflight.of[c].pc = "generated"
        /\ fitter' = [fitter EXCEPT
                !.fitinfo = frame_fitInfo(fitter, inflight.of[c])]
        /\ inflight' = [inflight EXCEPT
                !.of[c] = [Idle EXCEPT !.pc = "returned"],
                !.fitinfo_by = c]
        /\ call' = [NoCall EXCEPT !.op = "get_fit",
                                  !.final_rmse = inflight.of[c].final_rmse,
                                  !.ran = inflight.of[c].ran]
        /\ UNCHANGED <<mpmath_available, env>>

\* a call ends with an exception: its frame is gone, the instance is left
\* as the steps taken so far made it
Raised(c) ==
    /\ inflight' = [inflight EXCEPT !.of[c] = [Idle EXCEPT !.pc = "raised"]]
    /\ UNCHANGED <<mpmath_available, env, call, fitter>>

\* _run_fit raises: no assignment to the instance has been reached
run_fit_raises ==
    \E c \in Callers :
        /\ fitter.kind \in {"SpectralFitter", "CorrelationFitter"}
        /\ inflight.of[c].pc = "idle"
        /\ Raised(c)

\* _generate_bath raises while it computes its coefficient lists, before
\* super().__init__ is reached
generate_bath_raises ==
    \E c \in Callers :
        /\ inflight.of[c].pc = "ran"
        /\ Raised(c)

\* CorrelationFitter.get_fit: _two_column_summary raises; it is called
\* before self._generate_bath
two_column_summary_raises ==
    \E c \in Callers :
        /\ fitter.kind = "CorrelationFitter"
        /\ inflight.of[c].pc = "ran"
        /\ Raised(c)

\* SpectralFitter.get_fit: _gen_summary raises; it is called after
\* self._generate_bath and before self.fitinfo = fitInfo
gen_summary_raises ==
    \E c \in Callers :
        /\ fitter.kind = "SpectralFitter"
        /\ inflight.of[c].pc = "generated"
        /\ Raised(c)

\* the fitter instances the two callers may share
SharedTemps == {1}

SharedFitters ==
    {FitterInstance("SpectralFitter", Q, T, w, J) :
        Q \in Qs, T \in SharedTemps, w \in FitAxes, J \in RealFuns}
    \cup {FitterInstance("CorrelationFitter", Q, T, t, C) :
        Q \in Qs, T \in SharedTemps, t \in FitAxes, C \in ComplexFuns}

----------------------------------------------------------------------------
(* Exponent baths: the rational-approximation route and the functions      *)
(* computed from the exponents                                             *)

\* (pole, residue) pairs aaa may return: two poles in the lower half plane
\* and one in the upper
PoleTerms ==
    {[pole |-> Cx(R(1), R(0 - 1)), res |-> Cx(R(2), R(1))],
     [pole |-> Cx(R(0 - 1), R(1)), res |-> Cx(R(1), R(0 - 2))],
     [pole |-> Cx(R(2), R(0 - 2)), res |-> Cx(R(0), R(0 - 1))]}

\* aaa(bath.power_spectrum, x, tol=tol, max_iter=max_exponents * 2): the
\* poles and residues of the approximant, at most max_iter of them
aaa(max_iter) == {terms \in TermLists(PoleTerms) : Len(terms) <= max_iter}

KeptPole(term) == term.pole[2][1] < 0

\* filter_poles(pol, res): the pairs whose pole lies in the lower half
\* plane, in their order
filter_poles(terms) == SelectSeq(terms, KeptPole)

\* the lists with real and imaginary part of -1j * res exchanged
from_ps_lists_Exchanged(new_pols, new_res) ==
    LET c(k) == CMul(CNeg(ImagUnit), new_res[k])
        v(k) == CMul(ImagUnit, new_pols[k])
    IN  [handed |-> <<>>,
         ckAR |-> [k \in DOMAIN new_res |-> Cx(c(k)[2], R(0))],
         vkAR |-> [k \in DOMAIN new_pols |-> v(k)],
         ckAI |-> [k \in DOMAIN new_res |-> Cx(c(k)[1], R(0))],
         vkAI |-> [k \in DOMAIN new_pols |-> v(k)]]

\* ckAR, ckAI = real and imag of -1j * new_res; both rate lists are
\* vkAR + 1j * vkAI = 1j * new_pols
from_ps_lists(new_pols, new_res) ==
    LET c(k) == CMul(CNeg(ImagUnit), new_res[k])
        v(k) == CMul(ImagUnit, new_pols[k])
    IN  [handed |-> <<>>,
         ckAR |-> [k \in DOMAIN new_res |-> Cx(c(k)[1], R(0))],
         vkAR |-> [k \in DOMAIN new_pols |-> v(k)],
         ckAI |-> [k \in DOMAIN new_res |-> Cx(c(k)[2], R(0))],
         vkAI |-> [k \in DOMAIN new_pols |-> v(k)]]

\* ExponentialBosonicBath.__init__
ExponentialBosonicBath(Q, lists, T) ==
    [kind |-> "ExponentialBosonicBath", Q |-> Q, T |-> T,
     x |-> <<>>, fun |-> NoFun, fitinfo |-> NoInfo, has_bath |-> TRUE,
     ckAR |-> lists.ckAR, vkAR |-> lists.vkAR,
     ckAI |-> lists.ckAI, vkAI |-> lists.vkAI,
     exponents |-> BosonicBath_init(lists.ckAR, lists.vkAR,
                                    lists.ckAI, lists.vkAI)]

\* ApproximatedBosonicBath.from_ps(bath, x, tol, max_exponents, Q).  The
\* environment enters only through bath.T and through the samples aaa reads
\* from bath.power_spectrum: the environments built from a callable power
\* spectrum, one per T, stand for the argument.
from_ps ==
    /\ env.variant = "PS"
    /\ env.ps.kind = "fun"
    /\ fitter.kind = "none"
    /\ \E Q \in Qs, max_exponents \in 1 .. MaxN :
        \E terms \in aaa(max_exponents * 2) :
            LET kept == filter_poles(terms)
                new_pols == [k \in DOMAIN kept |-> kept[k].pole]
                new_res == [k \in DOMAIN kept |-> kept[k].res]
            IN  /\ fitter' = ExponentialBosonicBath(
                                 Q, from_ps_lists(new_pols, new_res), env.T)
                /\ call' = [NoCall EXCEPT !.op = "from_ps", !.returned = TRUE,
                                          !.handed = terms]
    /\ UNCHANGED <<mpmath_available, env, inflight>>

\* no check of the temperature
bose_einstein_error_Unchecked(b) == "none"

\* _bose_einstein raises ValueError("Bath temperature must be specified for
\* this operation") when T is None
bose_einstein_error(b) ==
    IF b.T = NoneT THEN "ValueError: Bath temperature must be specified"
    ELSE "none"

\* _bose_einstein(w), T # None
bose_einstein(b, w) ==
    [i \in DOMAIN w |->
        IF b.T = 0 \/ w[i] = 0 THEN R(0)
        ELSE RInv(RAdd(ExpOver(w[i], b.T), R(0 - 1)))]

\* kind I adding to the coefficient carried from the exponent before
RECURSIVE power_spectrum_approx_loop_Carried(_, _, _, _, _)
power_spectrum_approx_loop_Carried(exps, k, coeff, S, x) ==
    IF k > Len(exps) THEN S
    ELSE LET exp == exps[k]
             c1 == IF exp.type \in {"R", "RI"} THEN exp.ck ELSE coeff
             c2 == IF exp.type = "I"
                   THEN CAdd(c1, CMul(ImagUnit, exp.ck)) ELSE c1
             c3 == IF exp.type = "RI"
                   THEN CAdd(c2, CMul(ImagUnit, exp.ck2)) ELSE c2
             term == CDiv(c3, CAdd(exp.vk, CNeg(CMul(ImagUnit, Cx(R(x), R(0))))))
         IN  power_spectrum_approx_loop_Carried(
                 exps, k + 1, c3, RAdd(S, RMul(R(2), term[1])), x)

\* the loop of power_spectrum_approx at one frequency: coeff is a local
\* that each exponent of kind R, I or RI assigns before it is used
RECURSIVE power_spectrum_approx_loop(_, _, _, _, _)
power_spectrum_approx_loop(exps, k, coeff, S, x) ==
    IF k > Len(exps) THEN S
    ELSE LET exp == exps[k]
             c1 == IF exp.type \in {"R", "RI"} THEN exp.ck ELSE coeff
             c2 == IF exp.type = "I" THEN CMul(ImagUnit, exp.ck) ELSE c1
             c3 == IF exp.type = "RI"
                   THEN CAdd(c2, CMul(ImagUnit, exp.ck2)) ELSE c2
             term == CDiv(c3, CAdd(exp.vk, CNeg(CMul(ImagUnit, Cx(R(x), R(0))))))
         IN  power_spectrum_approx_loop(
                 exps, k + 1, c3, RAdd(S, RMul(R(2), term[1])), x)

power_spectrum_approx(b, w) ==
    [i \in DOMAIN w |->
        power_spectrum_approx_loop(b.exponents, 1, Cx(NaN, NaN), R(0), w[i])]

\* power_spectrum_approx(w) / (_bose_einstein(w) + 1) / 2
spectral_density_approx(b, w) ==
    LET S == power_spectrum_approx(b, w)
        n == bose_einstein(b, w)
    IN  [i \in DOMAIN w |-> RDiv(RDiv(S[i], RAdd(n[i], R(1))), R(2))]

\* a query on the bath held by the caller
BathQuery(op, w, err, ret) ==
    /\ fitter.kind = "ExponentialBosonicBath"
    /\ call' = [NoCall EXCEPT !.op = op, !.arg = w, !.err = err,
                              !.ret = IF err = "none" THEN ret ELSE <<>>]
    /\ UNCHANGED <<mpmath_available, env, fitter, inflight>>

query_bose_einstein ==
    \E w \in Arrays(Freqs) :
        BathQuery("_bose_einstein", w, bose_einstein_error(fitter),
                  bose_einstein(fitter, w))

query_power_spectrum_approx ==
    \E w \in Arrays(Freqs) :
        BathQuery("power_spectrum_approx", w, "none",
                  power_spectrum_approx(fitter, w))

query_spectral_density_approx ==
    \E w \in Arrays(Freqs) :
        BathQuery("spectral_density_approx", w, bose_einstein_error(fitter),
                  spectral_density_approx(fitter, w))

\* the loop of correlation_function_approx at one time: the sum corr as
\* the list of the terms added to it, [coeff, vk, t] standing for
\* coeff * exp(-vk * t); of is the position of the exponent adding it
RECURSIVE correlation_function_approx_loop(_, _, _, _)
correlation_function_approx_loop(exps, k, corr, x) ==
    IF k > Len(exps) THEN corr
    ELSE LET exp == exps[k]
             term(c) == [coeff |-> c, vk |-> exp.vk, t |-> x, of |-> k]
             s1 == IF exp.type \in {"R", "RI"}
                   THEN Append(corr, term(exp.ck)) ELSE corr
             s2 == IF exp.type = "I"
                   THEN Append(s1, term(CMul(ImagUnit, exp.ck))) ELSE s1
             s3 == IF exp.type = "RI"
                   THEN Append(s2, term(CMul(ImagUnit, exp.ck2))) ELSE s2
         IN  correlation_function_approx_loop(exps, k + 1, s3, x)

correlation_function_approx(b, t) ==
    [i \in DOMAIN t |->
        correlation_function_approx_loop(b.exponents, 1, <<>>, t[i])]

query_correlation_function_approx ==
    \E t \in Arrays(Freqs) :
        BathQuery("correlation_function_approx", t, "none",
                  correlation_function_approx(fitter, t))

\* BathExponent(type, None, Q, ck, vk, ck2): ck2 is used by kind RI only
BathExponent(type, ck, vk, ck2) ==
    [type |-> type, ck |-> ck, vk |-> vk, ck2 |-> ck2]

ExpCoeffs == {Cx(R(1), R(0)), Cx(R(1), R(1))}
ExpRates == {Cx(R(1), R(0)), Cx(R(2), R(0 - 1))}
ExpCoeffs2 == {Cx(R(2), R(0))}

\* exponents of the three kinds of a bosonic bath
BathExponents ==
    {BathExponent(type, ck, vk, Cx(R(0), R(0))) :
        type \in {"R", "I"}, ck \in ExpCoeffs, vk \in ExpRates}
    \cup {BathExponent("RI", ck, vk, ck2) :
        ck \in ExpCoeffs, vk \in ExpRates, ck2 \in ExpCoeffs2}

\* a bath holding a given sequence of exponents
BathOf(Q, T, exps) ==
    [ExponentialBosonicBath(
         Q, [ckAR |-> <<>>, vkAR |-> <<>>, ckAI |-> <<>>, vkAI |-> <<>>], T)
     EXCEPT !.exponents = exps]

Init ==
    /\ mpmath_available \in BOOLEAN
    /\ env = NoEnv
    /\ call = NoCall
    /\ fitter = NoFitter
    /\ inflight = NoCalls

Next ==
    \/ from_spectral_density
    \/ from_power_spectrum
    \/ from_correlation_function
    \/ DrudeLorentzEnvironment
    \/ UnderDampedEnvironment
    \/ OhmicEnvironment
    \/ query_spectral_density
    \/ query_power_spectrum
    \/ query_correlation_function
    \/ from_ps
    \/ query_bose_einstein
    \/ query_power_spectrum_approx
    \/ query_spectral_density_approx

Spec == Init /\ [][Next]_vars

NextFit ==
    \/ SpectralFitter
    \/ CorrelationFitter
    \/ SpectralFitter_get_fit
    \/ CorrelationFitter_get_fit

SpecFit == Init /\ [][NextFit]_vars

\* the two callers start with a constructed fitter in hand
InitCalls ==
    /\ mpmath_available = TRUE
    /\ env = NoEnv
    /\ call = NoCall
    /\ fitter \in SharedFitters
    /\ inflight = NoCalls

NextCalls ==
    \/ SpectralFitter_run_fit
    \/ CorrelationFitter_run_fit
    \/ generate_bath
    \/ set_fitinfo

SpecCalls == InitCalls /\ [][NextCalls]_vars

\* the functions of the exponents, applied to baths of every ordered
\* sequence of exponents
InitExps ==
    /\ mpmath_available = TRUE
    /\ env = NoEnv
    /\ call = NoCall
    /\ \E exps \in Arrays(BathExponents), Q \in Qs, T \in SharedTemps :
        fitter = BathOf(Q, T, exps)
    /\ inflight = NoCalls

NextExps ==
    \/ query_power_spectrum_approx
    \/ query_correlation_function_approx

SpecExps == InitExps /\ [][NextExps]_vars

\* calls made one after the other, each completing or raising
NextRaises ==
    \/ SpectralFitter_run_fit /\ ~inflight'.overlapped
    \/ CorrelationFitter_run_fit /\ ~inflight'.overlapped
    \/ generate_bath
    \/ set_fitinfo
    \/ run_fit_raises
    \/ generate_bath_raises
    \/ two_column_summary_raises
    \/ gen_summary_raises

SpecRaises == InitCalls /\ [][NextRaises]_vars

----------------------------------------------------------------------------
(* Properties of the environments, checked under Spec *)

FromArray ==
    /\ call.op \in {"from_spectral_density", "from_power_spectrum",
                    "from_correlation_function"}
    /\ call.fun.kind = "array"

AxisMismatch == ~call.xlist.some \/ Len(call.xlist.x) # Len(call.fun.y)

\* C1: building an environment from a sample array whose axis is missing or
\* of another length raises ValueError, with no interpolant built and no
\* environment returned.
C1_ValidationError ==
    (FromArray /\ AxisMismatch) =>
        /\ call.err = "ValueError"
        /\ call.built = 0
        /\ ~call.returned
        /\ env.variant = "none"

C1_Witness ==
    /\ call.op = "from_correlation_function"
    /\ call.fun.kind = "array"
    /\ call.xlist.some
    /\ Len(call.xlist.x) # Len(call.fun.y)
    /\ call.err = "ValueError"

Returned(variants, op) ==
    /\ env.variant \in variants
    /\ call.op = op
    /\ call.err = "none"

\* C2 as stated: for a from_correlation_function environment the returned
\* values satisfy C(-t) = conj(C(t)) for every queried t, t = 0 and
\* functions with Im C(0) # 0 included.
C2_HermitianEverywhere ==
    Returned({"CF"}, "correlation_function") =>
        \A i, j \in DOMAIN call.arg :
            call.arg[j] = 0 - call.arg[i] => call.ret[j] = Conj(call.ret[i])

\* C2 as amended: C(-t) = conj(C(t)) for every queried t # 0, and at t = 0
\* when the supplied C(0) is real.
C2_Hermitian ==
    Returned({"CF"}, "correlation_function") =>
        \A i, j \in DOMAIN call.arg :
            (/\ call.arg[j] = 0 - call.arg[i]
             /\ (call.arg[i] # 0 \/ call_complex(env.cf, 0)[2] = R(0)))
            => call.ret[j] = Conj(call.ret[i])

C2_Witness ==
    /\ Returned({"CF"}, "correlation_function")
    /\ \E i, j \in DOMAIN call.arg :
        /\ call.arg[i] > 0
        /\ call.arg[j] = 0 - call.arg[i]
        /\ call.ret[i][2] # R(0)

\* C3: for a from_correlation_function environment, correlation_function
\* returns the supplied C(t) at every t >= 0 and conj(C(|t|)) only at t < 0.
C3_SuppliedOnNonNegative ==
    Returned({"CF"}, "correlation_function") =>
        \A i \in DOMAIN call.arg :
            call.ret[i] = IF call.arg[i] >= 0
                          THEN call_complex(env.cf, call.arg[i])
                          ELSE Conj(call_complex(env.cf, 0 - call.arg[i]))

\* the environment's own spectral density and occupation number at one point
JAt(e, x) == spectral_density(e, <<x>>)[1]

OccupationPlusOne(x, T) == RAdd(n_thermal(x, T), R(1))

\* C4: the default J -> S derivation returns, at every queried w # 0,
\* 2 sign(w) J(|w|) (n(w, T) + 1) when T # 0 and 2 Heaviside(w) J(w) when
\* T = 0.
C4_DefaultPowerSpectrum ==
    Returned(Analytic \cup {"SD"}, "power_spectrum") =>
        \A i \in DOMAIN call.arg :
            LET w == call.arg[i]
            IN  w # 0 =>
                call.ret[i] =
                    IF env.T # 0
                    THEN RMul(RMul(R(2 * (IF w > 0 THEN 1 ELSE 0 - 1)),
                                   JAt(env, IF w > 0 THEN w ELSE 0 - w)),
                              OccupationPlusOne(w, env.T))
                    ELSE IF w > 0 THEN RMul(R(2), JAt(env, w)) ELSE R(0)

C4_Witness ==
    /\ Returned({"DrudeLorentz"}, "power_spectrum")
    /\ env.T > 0
    /\ \E i \in DOMAIN call.arg : call.arg[i] < 0 /\ call.ret[i] # R(0)

\* C5: a power_spectrum query of an analytic or from_spectral_density
\* environment never evaluates J or n at w = 0; the value returned for
\* w = 0 is the value returned for w = 1e-6, finite when J and n are.
C5_ZeroIsNudged ==
    Returned(Analytic \cup {"SD"}, "power_spectrum") =>
        /\ 0 \notin call.evalJ
        /\ 0 \notin call.evalN
        /\ \A i \in DOMAIN call.arg :
            call.arg[i] = 0 =>
                /\ call.ret[i] = power_spectrum(env, <<EPS>>)[1]
                /\ (IsFinite(JAt(env, EPS)) /\ IsFinite(n_thermal(EPS, env.T)))
                   => IsFinite(call.ret[i])

C5_Witness ==
    /\ Returned(Analytic \cup {"SD"}, "power_spectrum")
    /\ env.T > 0
    /\ \E i \in DOMAIN call.arg : call.arg[i] = 0 /\ call.ret[i] # R(0)

RoundTrip ==
    /\ env.variant = "PS"
    /\ env.ps.kind = "method"
    /\ env.ps.name = "power_spectrum"
    /\ env.ps.of.variant \in Analytic
    /\ env.ps.of.T = env.T
    /\ call.op = "spectral_density"
    /\ call.err = "none"

\* C6: J -> S -> J.  The spectral density of the environment built with
\* from_power_spectrum from the power spectrum of an analytic model, at the
\* same T, is the model's J at every queried w >= 0.
C6_RoundTripJSJ ==
    RoundTrip =>
        \A i \in DOMAIN call.arg :
            call.arg[i] >= 0 => call.ret[i] = JAt(env.ps.of, call.arg[i])

\* C10: without mpmath, OhmicEnvironment is constructed with exactly one
\* warning (none with mpmath); its spectral_density and power_spectrum
\* queries succeed and every correlation_function query raises.
C10_OhmicWithoutMpmath ==
    /\ call.op = "OhmicEnvironment" =>
        /\ call.returned
        /\ call.err = "none"
        /\ env.variant = "Ohmic"
        /\ call.warned = IF mpmath_available THEN 0 ELSE 1
    /\ (env.variant = "Ohmic" /\ ~mpmath_available) =>
        /\ call.op \in {"spectral_density", "power_spectrum"}
           => (call.err = "none" /\ Len(call.ret) = Len(call.arg))
        /\ call.op = "correlation_function"
           => (call.err # "none" /\ call.ret = <<>>)

C10_Witness ==
    /\ env.variant = "Ohmic"
    /\ ~mpmath_available
    /\ env.T = 0
    /\ call.op = "correlation_function"
    /\ call.err = "NameError"

\* alpha |x|^s / wc^(1 - s) exp(-|x| / wc), s a positive integer
OhmicOfAbs(e, x) ==
    RMul(R(e.alpha * IPow(Abs(x), e.s) * IPow(e.wc, e.s - 1)),
         ExpOver(0 - Abs(x), e.wc))

\* C11: the Ohmic spectral density is built from |w|: at every queried w,
\* negative ones included, it is alpha |w|^s / wc^(1-s) exp(-|w| / wc), so
\* that J(-w) = J(w).
C11_OhmicOfAbsoluteValue ==
    Returned({"Ohmic"}, "spectral_density") =>
        /\ \A i \in DOMAIN call.arg :
            call.ret[i] = OhmicOfAbs(env, call.arg[i])
        /\ \A i, j \in DOMAIN call.arg :
            call.arg[j] = 0 - call.arg[i] => call.ret[j] = call.ret[i]

\* C12: UnderDampedEnvironment.correlation_function returns the sum over the
\* exponents of its Matsubara expansion, whose leading rates are
\* Gamma -/+ i Omega, and not the J -> C quadrature.
C12_UnderDampedByMatsubara ==
    Returned({"UnderDamped"}, "correlation_function") =>
        \A i \in DOMAIN call.arg :
            /\ call.ret[i].via = "matsubara"
            /\ \E Nk \in Nks :
                LET p == UnderDamped_matsubara_params(env, Nk)
                IN  /\ call.ret[i].real = Zip(p.ck_real, p.vk_real)
                    /\ call.ret[i].imag = Zip(p.ck_imag, p.vk_imag)
                    /\ call.ret[i].real[1].vk.re = RNorm(env.gamma, 2)
                    /\ call.ret[i].real[1].vk.im[1] = 0 - 1
                    /\ call.ret[i].real[2].vk.im[1] = 1

\* the terms of the Drude-Lorentz expansion as the claim words them
CotTerm(e) ==
    [form |-> "cot", times |-> R(e.lam * e.gamma), num |-> e.gamma, den |-> 2 * e.T]

MatsubaraTerm(e, k) ==
    [form |-> "matsubara", pi_times |-> R(8 * e.lam * e.gamma * e.T * k * e.T),
     twopi |-> R(k * e.T), minus |-> R(e.gamma * e.gamma)]

ImagTerm(e) == [form |-> "rational", value |-> R(0 - e.lam * e.gamma)]

\* C13: for every Nk the Drude-Lorentz expansion has Nk + 1 real pairs and
\* one imaginary pair, in lists of matching lengths: (lam gamma cot(gamma /
\* 2T), gamma), then for k = 1 .. Nk (8 lam gamma T pi k T / ((2 pi k T)^2 -
\* gamma^2), 2 pi k T), and the imaginary pair (-lam gamma, gamma); the
\* value returned at each t is the sum over exactly these pairs.
C13_DrudeLorentzExpansion ==
    Returned({"DrudeLorentz"}, "correlation_function") =>
        LET p == DrudeLorentz_matsubara_params(env, call.Nk)
            Nk == call.Nk
        IN  /\ Len(p.ck_real) = Nk + 1
            /\ Len(p.vk_real) = Nk + 1
            /\ Len(p.ck_imag) = 1
            /\ Len(p.vk_imag) = 1
            /\ p.ck_real[1] = CotTerm(env)
            /\ p.vk_real[1] = Rate(R(env.gamma), R(0))
            /\ \A k \in 1 .. Nk :
                /\ p.ck_real[k + 1] = MatsubaraTerm(env, k)
                /\ p.vk_real[k + 1] = Rate(R(0), R(k * env.T))
            /\ p.ck_imag[1] = ImagTerm(env)
            /\ p.vk_imag[1] = Rate(R(env.gamma), R(0))
            /\ \A i \in DOMAIN call.arg :
                /\ call.ret[i].t = call.arg[i]
                /\ Len(call.ret[i].real) = Nk + 1
                /\ \A k \in 1 .. Nk + 1 :
                    call.ret[i].real[k] = [ck |-> p.ck_real[k], vk |-> p.vk_real[k]]
                /\ call.ret[i].imag =
                     <<[ck |-> ImagTerm(env), vk |-> Rate(R(env.gamma), R(0))]>>

C13_Witness ==
    /\ Returned({"DrudeLorentz"}, "correlation_function")
    /\ call.Nk = 1
    /\ Len(call.arg) = 2
    /\ Len(call.ret[2].real) = 2

\* C14: at T = 0 the correlation function of each analytic model returns a
\* value for every queried t (mpmath being available).
C14_DefinedAtZeroTemperature ==
    (/\ env.variant \in Analytic
     /\ env.T = 0
     /\ mpmath_available
     /\ call.op = "correlation_function")
    => (call.err = "none" /\ Len(call.ret) = Len(call.arg))

\* the last call is a query whose derivation uses the occupation number
EnvQueryNeedsT ==
    \/ call.op = "power_spectrum" /\ env.variant \in Analytic \cup {"SD"}
    \/ call.op = "correlation_function" /\ env.variant \in {"UnderDamped", "SD", "PS"}
    \/ call.op = "spectral_density" /\ env.variant \in {"PS", "CF"}

BathQueryNeedsT == call.op \in {"_bose_einstein", "spectral_density_approx"}

MissingParameterErrors ==
    {"MissingParameterError", "ValueError: Bath temperature must be specified"}

\* C16: every step that queries, on an object whose T is None, a function
\* that needs the occupation number (_bose_einstein or
\* spectral_density_approx of a bath; the derived power_spectrum,
\* correlation_function or spectral_density of an environment) ends in a
\* missing-parameter error, returns nothing and leaves the objects as they
\* were, whatever the frequencies.
C16_MissingTemperature ==
    [][/\ (EnvQueryNeedsT' /\ env'.T = NoneT) =>
            /\ call'.err \in MissingParameterErrors
            /\ call'.ret = <<>>
            /\ env' = env
            /\ fitter' = fitter
       /\ (BathQueryNeedsT' /\ fitter'.T = NoneT) =>
            /\ call'.err \in MissingParameterErrors
            /\ call'.ret = <<>>
            /\ env' = env
            /\ fitter' = fitter]_vars

C16_Witness ==
    /\ call.op = "spectral_density_approx"
    /\ fitter.T = NoneT
    /\ Len(call.arg) = 2
    /\ call.err # "none"

\* the surviving pairs, counted on what aaa returned
Surviving(terms) == {k \in DOMAIN terms : terms[k].pole[2][1] < 0}

\* the k-th surviving pair
SurvivingAt(terms, k) ==
    terms[CHOOSE j \in Surviving(terms) :
            Cardinality({m \in Surviving(terms) : m <= j}) = k]

EnvQueries == {"spectral_density", "power_spectrum", "correlation_function"}

\* C18: a query of an environment, of any variant, leaves the environment
\* (T, tag, parameters, stored function) and the caller's array as they
\* were; the nudge of power_spectrum does not reach the caller's array.
C18_QueriesChangeNothing ==
    [][call'.op \in EnvQueries =>
        /\ env' = env
        /\ call'.after = call'.arg]_vars

C18_Witness ==
    /\ Returned(Analytic \cup {"SD"}, "power_spectrum")
    /\ \E i \in DOMAIN call.arg : call.arg[i] = 0
    /\ call.evalJ = {EPS}
    /\ call.after = call.arg

\* C20: the spectral density of a Drude-Lorentz (lam >= 0, gamma > 0),
\* underdamped (gamma > 0, lam of either sign) or Ohmic (alpha >= 0,
\* wc > 0) environment is a number >= 0 at every queried w > 0.
C20_Positivity ==
    Returned(Analytic, "spectral_density") =>
        \A i \in DOMAIN call.arg :
            call.arg[i] > 0 =>
                (IsFinite(call.ret[i]) /\ call.ret[i][1] >= 0)

C20_Witness ==
    /\ Returned({"UnderDamped"}, "spectral_density")
    /\ env.lam < 0
    /\ \E i \in DOMAIN call.arg : call.arg[i] > 0 /\ call.ret[i][1] > 0

----------------------------------------------------------------------------
(* Properties of the fitters, checked under SpecFit *)

\* a call of _run_fit came back with an rmse above the requested one
Shortfall(k) == call.ran[k].rmse > call.final_rmse

\* C15: a fit whose achieved rmse is above final_rmse raises nothing:
\* get_fit completes, the exponents are those generated from the returned
\* parameters and fitinfo holds the rmse (or rmse_real and rmse_imag) and
\* the parameters exactly as _run_fit returned them.
C15_ShortfallIsData ==
    (call.op = "get_fit" /\ \E k \in DOMAIN call.ran : Shortfall(k)) =>
        /\ call.err = "none"
        /\ fitter.has_bath
        /\ fitter.fitinfo.set
        /\ fitter.exponents = BosonicBath_init(fitter.ckAR, fitter.vkAR,
                                               fitter.ckAI, fitter.vkAI)
        /\ fitter.kind = "SpectralFitter" =>
            /\ fitter.fitinfo.rmse = call.ran[1].rmse
            /\ fitter.fitinfo.params = call.ran[1].params
            /\ fitter.ckAR = SpectralFitter_generate_bath(
                                 fitter, call.ran[1].params, fitter.fitinfo.Nk).ckAR
        /\ fitter.kind = "CorrelationFitter" =>
            /\ fitter.fitinfo.rmse_real = call.ran[1].rmse
            /\ fitter.fitinfo.rmse_imag = call.ran[2].rmse
            /\ fitter.fitinfo.params_real = call.ran[1].params
            /\ fitter.fitinfo.params_imag = call.ran[2].params
            /\ fitter.vkAR = Rates(call.ran[1].params[2], call.ran[1].params[3])
            /\ fitter.vkAI = Rates(call.ran[2].params[2], call.ran[2].params[3])

C15_Witness ==
    /\ call.op = "get_fit"
    /\ fitter.kind = "CorrelationFitter"
    /\ Shortfall(1)
    /\ ~Shortfall(2)
    /\ fitter.fitinfo.rmse_real > call.final_rmse
    /\ fitter.fitinfo.Nr = MaxN

FittedBy(kind) ==
    /\ fitter.kind = kind
    /\ fitter.has_bath
    /\ call.op = "get_fit"

\* the fitted Meier-Tannor triple of term i
FitA(i) == fitter.fitinfo.params[1][i]
FitB(i) == fitter.fitinfo.params[2][i]
FitC(i) == fitter.fitinfo.params[3][i]

\* the coefficients of term i in the concatenated real list
TermCoeffs(i) ==
    LET n == 2 + fitter.fitinfo.Nk
    IN  {fitter.ckAR[j] : j \in (i - 1) * n + 1 .. i * n}

HandedLam(i) ==
    /\ call.handed[i].lam = Sqrt(R(FitA(i)))
    /\ \A ck \in TermCoeffs(i) : ck.lam = Sqrt(R(FitA(i)))

\* C7 as stated: each fitted triple (a, b, c) is handed to the Matsubara
\* expansion with omega0 = sqrt(c^2 + (b/2)^2) and lambda = sqrt(a).
C7_HalvedDamping ==
    FittedBy("SpectralFitter") =>
        \A i \in 1 .. fitter.fitinfo.N :
            /\ Len(call.handed) = fitter.fitinfo.N
            /\ HandedLam(i)
            /\ call.handed[i].w0 =
                 Sqrt(RAdd(R(FitC(i) * FitC(i)),
                           RMul(RNorm(FitB(i), 2), RNorm(FitB(i), 2))))

\* C7 as amended: each fitted triple (a, b, c) is handed to the Matsubara
\* expansion with omega0 = sqrt(c^2 + b^2) and lambda = sqrt(a).
C7_Transform ==
    FittedBy("SpectralFitter") =>
        \A i \in 1 .. fitter.fitinfo.N :
            /\ Len(call.handed) = fitter.fitinfo.N
            /\ HandedLam(i)
            /\ call.handed[i].w0 =
                 Sqrt(R(FitC(i) * FitC(i) + FitB(i) * FitB(i)))

C7_Witness ==
    /\ FittedBy("SpectralFitter")
    /\ fitter.fitinfo.N = 2
    /\ \E i \in 1 .. 2 : FitA(i) < 0 /\ call.handed[i].lam = Sqrt(R(FitA(i)))

\* the d parameter of term k: zero unless the full ansatz was fitted
FitD(params, k) == IF Len(params) = 4 THEN params[4][k] ELSE 0

\* a + i d, over two
HalfOf(a, d) == Cx(RNorm(a, 2), RNorm(d, 2))

\* the rate lists of one fit: -b - ic for the fitted terms, then -b + ic
RatesAsClaimed(params, vk) ==
    LET N == Len(params[1])
    IN  /\ Len(vk) = 2 * N
        /\ \A k \in 1 .. N :
            /\ vk[k] = Cx(R(0 - params[2][k]), R(0 - params[3][k]))
            /\ vk[N + k] = Cx(R(0 - params[2][k]), R(params[3][k]))

\* C8: the real-part fit gives coefficients 0.5 (a + i d) followed by their
\* conjugates and rates -b - ic followed by -b + ic; the imaginary-part fit
\* gives coefficients -0.5 i (a + i d) followed by their conjugates, rates
\* alike; each list has twice the number of fitted terms.
C8_Exponents ==
    FittedBy("CorrelationFitter") =>
        LET pr == fitter.fitinfo.params_real
            pi == fitter.fitinfo.params_imag
            Nr == Len(pr[1])
            Ni == Len(pi[1])
        IN  /\ Len(fitter.ckAR) = 2 * Nr
            /\ Len(fitter.ckAI) = 2 * Ni
            /\ RatesAsClaimed(pr, fitter.vkAR)
            /\ RatesAsClaimed(pi, fitter.vkAI)
            /\ \A k \in 1 .. Nr :
                /\ fitter.ckAR[k] = HalfOf(pr[1][k], FitD(pr, k))
                /\ fitter.ckAR[Nr + k] = HalfOf(pr[1][k], 0 - FitD(pr, k))
            /\ \A k \in 1 .. Ni :
                \* -0.5 i (a + i d) = (d - i a) / 2
                /\ fitter.ckAI[k] = HalfOf(FitD(pi, k), 0 - pi[1][k])
                /\ fitter.ckAI[Ni + k] = HalfOf(FitD(pi, k), pi[1][k])

C8_Witness ==
    /\ FittedBy("CorrelationFitter")
    /\ Len(fitter.fitinfo.params_real) = 4
    /\ Len(fitter.fitinfo.params_real[1]) = 2
    /\ Len(fitter.fitinfo.params_imag[1]) = 1
    /\ fitter.ckAR[1][2] # R(0)

\* every exponent of the list has a partner with the conjugate coefficient
\* and the rate partner(v)
Paired(ck, vk, partner(_)) ==
    \A k \in DOMAIN ck :
        \E m \in DOMAIN ck : ck[m] = Conj(ck[k]) /\ vk[m] = partner(vk[k])

MinusConj(v) == CNeg(Conj(v))

\* C9 as stated: each exponent (c, v) of a fitted list has the partner
\* (conj(c), -conj(v)) in the same list.
C9_PartnerMinusConj ==
    FittedBy("CorrelationFitter") =>
        /\ Paired(fitter.ckAR, fitter.vkAR, MinusConj)
        /\ Paired(fitter.ckAI, fitter.vkAI, MinusConj)

\* C9 as amended: each exponent (c, v) of a fitted list has the partner
\* (conj(c), conj(v)) in the same list.
C9_ConjugatePairs ==
    FittedBy("CorrelationFitter") =>
        /\ Paired(fitter.ckAR, fitter.vkAR, Conj)
        /\ Paired(fitter.ckAI, fitter.vkAI, Conj)

C9_Witness ==
    /\ FittedBy("CorrelationFitter")
    /\ \E k \in DOMAIN fitter.vkAR :
        /\ fitter.vkAR[k][1] # R(0)
        /\ fitter.vkAR[k][2] # R(0)

----------------------------------------------------------------------------
(* Properties of two get_fit calls on one instance, checked under SpecCalls *)

\* the exponents _generate_bath would build from the parameters in fitinfo
ExponentsOfInfo(f) ==
    LET bath == IF f.kind = "SpectralFitter"
                THEN SpectralFitter_generate_bath(f, f.fitinfo.params,
                                                  f.fitinfo.Nk)
                ELSE CorrelationFitter_generate_bath(
                         f.fitinfo.params_real, f.fitinfo.params_imag, 3)
    IN  BosonicBath_init(bath.ckAR, bath.vkAR, bath.ckAI, bath.vkAI)

\* C19: while no call has begun during another, every return of get_fit
\* leaves the instance with the exponents and the fitinfo of the returning
\* call.  (Interleaved calls reach C19_Witness: exponents of one call
\* beside the fitinfo of the other.)
C19_SerializedCalls ==
    [][\A c \in Callers :
        (/\ inflight.of[c].pc = "generated"
         /\ inflight'.of[c].pc = "returned"
         /\ ~inflight'.overlapped)
        => LET bath == frame_bath(fitter, inflight.of[c])
           IN  /\ fitter'.fitinfo = frame_fitInfo(fitter, inflight.of[c])
               /\ fitter'.exponents = BosonicBath_init(bath.ckAR, bath.vkAR,
                                                       bath.ckAI, bath.vkAI)
               /\ inflight'.exponents_by = c
               /\ inflight'.fitinfo_by = c]_vars

C19_Witness ==
    /\ \A c \in Callers : inflight.of[c].pc = "returned"
    /\ inflight.overlapped
    /\ inflight.exponents_by # inflight.fitinfo_by
    /\ fitter.exponents # ExponentsOfInfo(fitter)

\* two calls one after the other, both returned
C19_Serialized ==
    /\ \A c \in Callers : inflight.of[c].pc = "returned"
    /\ ~inflight.overlapped
    /\ fitter.exponents = ExponentsOfInfo(fitter)

----------------------------------------------------------------------------
(* Properties of get_fit calls that may raise, checked under SpecRaises *)

NoCallInProgress == \A c \in Callers : ~InProgress(c)

SomeCallRaised == \E c \in Callers : inflight.of[c].pc = "raised"

\* C21: between calls of get_fit, some of which raised, the exponents and
\* the fitinfo of the instance describe the same fit: both unset, or the
\* exponents are those of the parameters in fitinfo.
C21_SameFit ==
    (NoCallInProgress /\ SomeCallRaised) =>
        IF fitter.fitinfo = NoInfo
        THEN ~fitter.has_bath /\ fitter.exponents = <<>>
        ELSE fitter.has_bath /\ fitter.exponents = ExponentsOfInfo(fitter)

----------------------------------------------------------------------------
(* Properties of the functions of the exponents, checked under SpecExps *)

\* the coefficient an exponent stands for: ck, i*ck or ck + i*ck2
EffectiveCoefficient(exp) ==
    IF exp.type = "R" THEN exp.ck
    ELSE IF exp.type = "I" THEN CMul(ImagUnit, exp.ck)
    ELSE CAdd(exp.ck, CMul(ImagUnit, exp.ck2))

\* sum over the first k exponents of 2 * Re(coefficient / (vk - i * x))
RECURSIVE SumOfPoles(_, _, _)
SumOfPoles(exps, k, x) ==
    IF k = 0 THEN R(0)
    ELSE RAdd(SumOfPoles(exps, k - 1, x),
              RMul(R(2),
                   CDiv(EffectiveCoefficient(exps[k]),
                        CAdd(exps[k].vk,
                             CNeg(CMul(ImagUnit, Cx(R(x), R(0))))))[1]))

\* the sum of the coefficients of the terms exponent k added
RECURSIVE CoefficientIn(_, _)
CoefficientIn(terms, k) ==
    IF terms = <<>> THEN Cx(R(0), R(0))
    ELSE CAdd(IF Head(terms).of = k THEN Head(terms).coeff
              ELSE Cx(R(0), R(0)),
              CoefficientIn(Tail(terms), k))

BathReturned(op) ==
    /\ fitter.kind = "ExponentialBosonicBath"
    /\ call.op = op
    /\ call.err = "none"

\* C22: power_spectrum_approx returns the sum over the exponents of
\* 2 * Re(c / (vk - i w)) with c the effective coefficient of the exponent
\* alone, and correlation_function_approx adds, for every exponent, terms
\* exp(-vk t) whose coefficients sum to the same c.
C22_SameCoefficient ==
    /\ BathReturned("power_spectrum_approx") =>
        \A i \in DOMAIN call.arg :
            call.ret[i] = SumOfPoles(fitter.exponents, Len(fitter.exponents),
                                     call.arg[i])
    /\ BathReturned("correlation_function_approx") =>
        \A i \in DOMAIN call.arg :
            /\ \A k \in DOMAIN fitter.exponents :
                CoefficientIn(call.ret[i], k)
                    = EffectiveCoefficient(fitter.exponents[k])
            /\ \A j \in DOMAIN call.ret[i] :
                /\ call.ret[i][j].vk = fitter.exponents[call.ret[i][j].of].vk
                /\ call.ret[i][j].t = call.arg[i]

C22_Witness ==
    /\ BathReturned("power_spectrum_approx")
    /\ Len(fitter.exponents) = 2
    /\ fitter.exponents[1].type = "RI"
    /\ fitter.exponents[2].type = "I"
    /\ \E i \in DOMAIN call.arg : call.arg[i] # 0 /\ call.ret[i][1] # 0

----------------------------------------------------------------------------
(* Batched evaluation, checked under Spec *)

\* the value returned for call.arg[i] is the value any other batch holding
\* the same frequency gets for it
PointwiseAt(i) ==
    \A w2 \in Arrays(Freqs) :
        \A j \in DOMAIN w2 :
            w2[j] = call.arg[i] => power_spectrum(env, w2)[j] = call.ret[i]

\* C23: the value power_spectrum returns for a frequency of a batch depends
\* on that frequency and the environment only, whatever the variant: not
\* on the other frequencies of the call nor on their order.
C23_BatchIsPointwise ==
    (call.op = "power_spectrum" /\ call.err = "none") =>
        \A i \in DOMAIN call.arg : PointwiseAt(i)

----------------------------------------------------------------------------
(* The expansion of a spectral-density fit, checked under SpecFit *)

\* the places of term i in a list holding n entries per fitted term
Block(i, n) == (i - 1) * n + 1 .. i * n

\* the two resonant rates Gamma -/+ i Om of term i
ResonantRates(vk, i, n, Gamma, Om) ==
    /\ vk[(i - 1) * n + 1] = [re |-> Gamma, im |-> <<0 - 1, Om>>]
    /\ vk[(i - 1) * n + 2] = [re |-> Gamma, im |-> <<1, Om>>]

\* the expansion of the fit: term i is handed gamma = 2 b, its entries in
\* the four lists carry the half-width b and the detuning Om, and each pair
\* of lists has n entries per fitted term, term after term
ExpansionWith(IsOm(_, _)) ==
    LET N == fitter.fitinfo.N
        Nk == fitter.fitinfo.Nk
    IN  /\ Len(fitter.ckAR) = N * (2 + Nk)
        /\ Len(fitter.vkAR) = Len(fitter.ckAR)
        /\ Len(fitter.ckAI) = N * 2
        /\ Len(fitter.vkAI) = Len(fitter.ckAI)
        /\ \A i \in 1 .. N :
            /\ call.handed[i].gamma = R(2 * FitB(i))
            /\ \A j \in Block(i, 2 + Nk) :
                /\ fitter.ckAR[j].Gamma = R(FitB(i))
                /\ IsOm(fitter.ckAR[j].Om, i)
                /\ fitter.ckAR[j].lam = Sqrt(R(FitA(i)))
            /\ \A j \in Block(i, 2) :
                /\ fitter.ckAI[j].Gamma = R(FitB(i))
                /\ IsOm(fitter.ckAI[j].Om, i)
                /\ fitter.ckAI[j].lam = Sqrt(R(FitA(i)))
            /\ ResonantRates(fitter.vkAR, i, 2 + Nk, R(FitB(i)),
                             fitter.ckAR[(i - 1) * (2 + Nk) + 1].Om)
            /\ ResonantRates(fitter.vkAI, i, 2, R(FitB(i)),
                             fitter.ckAI[(i - 1) * 2 + 1].Om)

\* om is the principal square root of c^2, that is |c|
RootOfSquare(om, i) == om = Sqrt(R(FitC(i) * FitC(i)))

\* om is the fitted c itself: a principal root is c only when c >= 0
FittedC(om, i) == RootOfSquare(om, i) /\ FitC(i) >= 0

\* C24 as stated: for every fitted triple (a, b, c) the expansion has
\* half-width Gamma = b and detuning Omega = c, the expansions of the terms
\* following each other in fit order in lists of equal length per kind.
C24_DetuningIsC ==
    FittedBy("SpectralFitter") => ExpansionWith(FittedC)

\* C24 as amended: for every fitted triple (a, b, c) the expansion has
\* half-width Gamma = b and detuning Omega = sqrt(c^2), that is |c|, the
\* expansions of the terms following each other in fit order in lists of
\* equal length per kind.
C24_Expansion ==
    FittedBy("SpectralFitter") => ExpansionWith(RootOfSquare)

C24_Witness ==
    /\ FittedBy("SpectralFitter")
    /\ fitter.fitinfo.N = 2
    /\ fitter.fitinfo.Nk = 1
    /\ FitC(1) < 0
    /\ FitC(2) > 0
    /\ fitter.ckAR[1].Om = Sqrt(R(1))

====
